---- MODULE Spec2Model ----
(***************************************************************************)
(* Model of the MCP servers of mcp-auth-step-by-step: the JSON-RPC         *)
(* dispatchers handle_mcp_request of step2.py .. step10.py, server.py and  *)
(* jwt_server.py, the token verifiers verify_token, the JWKS cache of      *)
(* step10.py (fetch_keycloak_jwks), the authorization policies             *)
(* check_permission and the Origin check origin_validation_middleware.     *)
(*                                                                         *)
(* Time is counted in minutes.  A request id is written as a string:       *)
(* "7" stands for the integer 7, "abc" for a string id, IdNone for None.   *)
(***************************************************************************)
EXTENDS Integers, Sequences, FiniteSets, TLC

VARIABLES
    server,           \* which server program this process runs
    public_key,       \* self.public_key is loaded (local-key servers)
    jwks_cache,       \* step10: self.jwks_cache
    jwks_cache_time,  \* step10: self.jwks_cache_time (None or a time)
    now,              \* the wall clock, datetime.now()
    pc,               \* per call: "idle", "fetching", "done"
    req,              \* per call: the inbound HTTP call
    resp,             \* per call: the response produced
    fetch_now,        \* per call: the local `now` of fetch_keycloak_jwks
    fetches,          \* per call: network fetches this call has issued
    fetch_result,     \* per call: "none", "ok" or "failed", how its fetch ended
    call_jwks,        \* per call: the key set fetch_keycloak_jwks handed back
    perm,             \* one evaluation of check_permission
    client            \* step11.py: one run of main() of the OAuth client

vars == <<server, public_key, jwks_cache, jwks_cache_time, now,
          pc, req, resp, fetch_now, fetches, fetch_result, call_jwks, perm, client>>

callVars == <<pc, req, resp, fetch_now, fetches, fetch_result, call_jwks>>
fetchVars == <<fetch_now, fetches, fetch_result, call_jwks>>
cacheVars == <<jwks_cache, jwks_cache_time>>
serverVars == <<server, public_key, jwks_cache, jwks_cache_time, now,
                pc, req, resp, fetch_now, fetches, fetch_result, call_jwks, perm>>

None == "None"
IdNone == "None"

(***************************************************************************)
(* Authorization policy                                                    *)
(***************************************************************************)

\* f"mcp:{resource}"
ScopeFor(resource) == "mcp:" \o resource

\* check_permission_step8 with the read fallback granted for every action
check_permission_step8_anyaction(scopes, roles, resource, action) ==
    IF "admin" \in roles THEN TRUE
    ELSE IF ScopeFor(resource) \in scopes THEN TRUE
    ELSE IF "mcp:read" \in scopes THEN TRUE
    ELSE FALSE

\* a policy that lets every caller do everything
check_permission_step8_allowall(scopes, roles, resource, action) == TRUE

\* step8.py JWTMCPServer.check_permission
check_permission_step8(scopes, roles, resource, action) ==
    IF "admin" \in roles THEN TRUE
    ELSE IF ScopeFor(resource) \in scopes THEN TRUE
    ELSE IF action = "read" /\ "mcp:read" \in scopes THEN TRUE
    ELSE FALSE

\* jwt_server.py SimpleMCPServer.check_permission
check_permission_jwt_server(scopes, roles, resource, action) ==
    IF "admin" \in roles THEN TRUE
    ELSE IF ScopeFor(resource) \in scopes THEN TRUE
    ELSE IF action = "read" /\ "mcp:read" \in scopes THEN TRUE
    ELSE FALSE

\* check_permission_step10 without the exclusion of tools and prompts
check_permission_step10_noexclusion(scopes, resource, action) ==
    IF ScopeFor(resource) \in scopes THEN TRUE
    ELSE IF action = "read" /\ "mcp:read" \in scopes THEN TRUE
    ELSE FALSE

\* step10.py KeycloakMCPServer.check_permission: it takes no roles
check_permission_step10(scopes, resource, action) ==
    IF ScopeFor(resource) \in scopes THEN TRUE
    ELSE IF action = "read" /\ "mcp:read" \in scopes
         THEN IF resource \in {"tools", "prompts"} THEN FALSE ELSE TRUE
    ELSE FALSE

\* The policy a server applies to the claims of a verified token.
Allow(srv, scopes, roles, resource, action) ==
    CASE srv = "step8"      -> check_permission_step8(scopes, roles, resource, action)
      [] srv = "jwt_server" -> check_permission_jwt_server(scopes, roles, resource, action)
      [] srv = "step10"     -> check_permission_step10(scopes, resource, action)

PolicyServers == {"step8", "jwt_server", "step10"}
ScopeUniverse == {"mcp:read", "mcp:tools", "mcp:prompts", "mcp:resources"}
RoleUniverse == {"admin", "user"}
Resources == {"tools", "prompts", "resources", "read"}
Actions == {"read", "execute"}

PermInputs ==
    [srv : PolicyServers, scopes : SUBSET ScopeUniverse, roles : SUBSET RoleUniverse,
     resource : Resources, action : Actions, result : {"unchecked"}]

PermIdle == [srv |-> "step8", scopes |-> {}, roles |-> {}, resource |-> "tools",
             action |-> "read", result |-> "idle"]

(***************************************************************************)
(* Servers and their configuration                                         *)
(***************************************************************************)

OpenServers == {"step2", "step3", "step4", "step5", "server"}
ProtectedServers == {"step6", "step8", "step10", "jwt_server"}
Servers == OpenServers \cup ProtectedServers

\* JWT_ISSUER
JWT_ISSUER(srv) ==
    IF srv = "step10" THEN "http://localhost:9090/realms/mcp-realm"
    ELSE "mcp-simple-auth"

\* JWT_AUDIENCE: a list in step10.py, a single string elsewhere
JWT_AUDIENCE(srv) ==
    IF srv = "step10" THEN <<"echo-mcp-server">> ELSE <<"mcp-server">>

\* self.jwks_cache_duration = timedelta(minutes=5)
jwks_cache_duration == 5

NoTime == -1     \* jwks_cache_time = None

(***************************************************************************)
(* Credentials.  A credential is the Authorization header of the call:     *)
(* fmt "absent" is no header, "jwt" a well-formed token; sig names the     *)
(* private key that signed it; kid is the key-id of its header.            *)
(***************************************************************************)

LocalKey == "K1"   \* the key pair of mcp_public_key.pem / mcp_private_key.pem

Token(srv, scopes, roles) ==
    [fmt |-> "jwt", kid |-> "k1", sig |-> "K1", expired |-> FALSE,
     iss |-> JWT_ISSUER(srv), has_aud |-> TRUE, aud |-> {JWT_AUDIENCE(srv)[1]},
     iat_future |-> FALSE,
     has_scope |-> FALSE, scope |-> {}, has_scopes |-> TRUE, scopes |-> scopes,
     roles |-> roles]

NoCredentials == [Token("step8", {}, {}) EXCEPT !.fmt = "absent"]

\* jwt.decode with verify_iat left on: a token issued in the future is immature
jwt_decode_verify_iat(token, key, audience, issuer) ==
    IF token.fmt # "jwt" THEN "DecodeError"
    ELSE IF token.sig # key THEN "InvalidSignatureError"
    ELSE IF token.iat_future THEN "ImmatureSignatureError"
    ELSE IF token.expired THEN "ExpiredSignatureError"
    ELSE IF token.iss # issuer THEN "InvalidIssuerError"
    ELSE IF ~token.has_aud THEN "MissingRequiredClaimError"
    ELSE IF audience \notin token.aud THEN "InvalidAudienceError"
    ELSE "ok"

\* PyJWT jwt.decode(token, key, algorithms=["RS256"], audience=audience,
\* issuer=issuer, options={verify_signature, verify_exp, verify_iat: False}):
\* the signature first, then exp, iss and aud in that order.
jwt_decode(token, key, audience, issuer) ==
    IF token.fmt # "jwt" THEN "DecodeError"
    ELSE IF token.sig # key THEN "InvalidSignatureError"
    ELSE IF token.expired THEN "ExpiredSignatureError"
    ELSE IF token.iss # issuer THEN "InvalidIssuerError"
    ELSE IF ~token.has_aud THEN "MissingRequiredClaimError"
    ELSE IF audience \notin token.aud THEN "InvalidAudienceError"
    ELSE "ok"

\* the HTTPException(401, ...) without the headers argument
Unauthorized_bare(detail) ==
    [ok |-> FALSE, status |-> 401, detail |-> detail, challenge |-> FALSE,
     anonymous |-> FALSE, scopes |-> {}, roles |-> {}]

\* get_www_authenticate_header and the HTTPException(401, ...) built with it:
\* challenge stands for the header WWW-Authenticate: Bearer realm="mcp-server",
\* resource_metadata="<server>/.well-known/oauth-protected-resource"
Unauthorized(detail) ==
    [ok |-> FALSE, status |-> 401, detail |-> detail, challenge |-> TRUE,
     anonymous |-> FALSE, scopes |-> {}, roles |-> {}]

Verified(scopes, roles) ==
    [ok |-> TRUE, status |-> 200, detail |-> "", challenge |-> FALSE,
     anonymous |-> FALSE, scopes |-> scopes, roles |-> roles]

Anonymous ==
    [ok |-> TRUE, status |-> 200, detail |-> "", challenge |-> FALSE,
     anonymous |-> TRUE, scopes |-> {}, roles |-> {}]

\* the except clauses that end verify_token in every protected server
verify_token_except(err) ==
    CASE err = "ExpiredSignatureError" -> Unauthorized("Token has expired")
      [] err = "InvalidAudienceError"  -> Unauthorized("Invalid token audience")
      [] err = "InvalidIssuerError"    -> Unauthorized("Invalid token issuer")
      [] OTHER                         -> Unauthorized("Invalid token")

\* token_info.get("scopes", []) / token_info.get("roles", []) of a payload
\* returned by the local verifiers: only the list claim is read
PayloadLocal(token) ==
    Verified(IF token.has_scopes THEN token.scopes ELSE {}, token.roles)

\* step6.py / step8.py JWTMCPServer.verify_token
verify_token_step8(cred, has_key) ==
    IF ~has_key THEN Anonymous
    ELSE IF cred.fmt = "absent" THEN Unauthorized("Authorization header missing")
    ELSE LET err == jwt_decode(cred, LocalKey, JWT_AUDIENCE("step8")[1], JWT_ISSUER("step8"))
         IN IF err = "ok" THEN PayloadLocal(cred) ELSE verify_token_except(err)

\* jwt_server.py SimpleMCPServer.verify_token
verify_token_jwt_server(cred) ==
    IF cred.fmt = "absent" THEN Unauthorized("Authorization header missing")
    ELSE LET err == jwt_decode(cred, LocalKey, JWT_AUDIENCE("jwt_server")[1],
                               JWT_ISSUER("jwt_server"))
         IN IF err = "ok" THEN PayloadLocal(cred) ELSE verify_token_except(err)

(***************************************************************************)
(* step10.py: the key set of the identity provider and its cache           *)
(***************************************************************************)

\* A key-set document, response.json(): obj tells whether the JSON object
\* has any member at all, keys is its 'keys' list as <<kid, key material>>
\* pairs; material "bad" is an n/e that cannot be rebuilt into a key.
DocEmpty == [obj |-> "empty", keys |-> {}]                   \* {}
DocNoKeys == [obj |-> "members", keys |-> {}]                \* {"keys": []}
DocOf(keys) == [obj |-> "members", keys |-> keys]

NoData == [obj |-> "unset", keys |-> {}]                     \* not assigned yet

Docs == {DocEmpty, DocNoKeys,
         DocOf({<<"k1", "K1">>}),
         DocOf({<<"k1", "K1">>, <<"k2", "K2">>}),
         DocOf({<<"k2", "K2">>}),
         DocOf({<<"k1", "K1">>, <<"k2", "bad">>})}

\* Python truth value of a dict: `and self.jwks_cache`
Truthy(doc) == doc.obj # "empty"

\* step10.py fetch_keycloak_jwks, lines 76-80: the cached set is returned
cache_valid(t) ==
    /\ jwks_cache_time # NoTime
    /\ t - jwks_cache_time < jwks_cache_duration
    /\ Truthy(jwks_cache)

\* the fetched keys are added to the cached ones instead of replacing them
cache_store_merge(doc, t) ==
    /\ jwks_cache' = [obj |-> doc.obj, keys |-> doc.keys \cup jwks_cache.keys]
    /\ jwks_cache_time' = t

\* the second assignment of lines 92-93 is lost: the set without its time
cache_store_torn(doc, t) ==
    /\ jwks_cache' = doc
    /\ jwks_cache_time' = jwks_cache_time

\* step10.py fetch_keycloak_jwks, lines 92-93: both fields are assigned with
\* no await between the two statements
cache_store(doc, t) ==
    /\ jwks_cache' = doc
    /\ jwks_cache_time' = t

\* one key that cannot be converted spoils the lookup of every key
get_public_key_from_jwks_allornothing(jwks_data, kid) ==
    IF \E k \in jwks_data.keys : k[2] = "bad" THEN None
    ELSE IF \E k \in jwks_data.keys : k[1] = kid
    THEN (CHOOSE k \in jwks_data.keys : k[1] = kid)[2]
    ELSE None

\* step10.py get_public_key_from_jwks: the PEM of the key, or None
get_public_key_from_jwks(jwks_data, kid) ==
    IF \E k \in jwks_data.keys : k[1] = kid
    THEN LET k == CHOOSE k \in jwks_data.keys : k[1] = kid
         IN IF k[2] = "bad" THEN None ELSE k[2]
    ELSE None

\* the key set is asked for before the header's kid is looked at
verify_token_step10_pre_kidafter(cred) ==
    IF cred.fmt = "absent" THEN Unauthorized("Authorization header missing")
    ELSE IF cred.fmt = "empty" THEN Unauthorized("Empty token")
    ELSE IF cred.fmt = "ctrl" THEN Unauthorized("Invalid token format")
    ELSE IF cred.fmt # "jwt" THEN verify_token_except("DecodeError")
    ELSE [Unauthorized("") EXCEPT !.detail = "resolve"]

\* step10.py verify_token, lines 180-225: what is decided before the key
\* set is asked for; "resolve" means the verifier goes on to line 229
verify_token_step10_pre(cred) ==
    IF cred.fmt = "absent" THEN Unauthorized("Authorization header missing")
    ELSE IF cred.fmt = "empty" THEN Unauthorized("Empty token")
    ELSE IF cred.fmt = "ctrl" THEN Unauthorized("Invalid token format")
    ELSE IF cred.fmt # "jwt" THEN verify_token_except("DecodeError")
    ELSE IF cred.kid = "none" THEN verify_token_except("HTTPException")
    ELSE [Unauthorized("") EXCEPT !.detail = "resolve"]

\* step10.py verify_token, lines 250-271: each configured audience in turn
RECURSIVE decode_audiences(_, _, _, _)
decode_audiences(token, key, audiences, i) ==
    IF i > Len(audiences) THEN "InvalidAudienceError"
    ELSE LET err == jwt_decode(token, key, audiences[i], JWT_ISSUER("step10"))
         IN IF err = "InvalidAudienceError"
            THEN decode_audiences(token, key, audiences, i + 1)
            ELSE err

\* step10.py verify_token, lines 285-293
scopes_step10(token) ==
    IF token.has_scope THEN token.scope
    ELSE IF token.has_scopes THEN token.scopes
    ELSE {}

\* step10.py verify_token, lines 231-299, with the key set in hand
verify_token_step10_post(cred, jwks_data) ==
    LET public_key_pem == get_public_key_from_jwks(jwks_data, cred.kid)
    IN IF public_key_pem = None THEN verify_token_except("HTTPException")
       ELSE LET err == decode_audiences(cred, public_key_pem, JWT_AUDIENCE("step10"), 1)
            IN IF err = "ok" THEN Verified(scopes_step10(cred), cred.roles)
               ELSE verify_token_except(err)

\* step10.py fetch_keycloak_jwks, lines 98-103, raised into verify_token's
\* try block at line 229 and caught by its `except Exception` at line 322
verify_token_step10_fetch_failed == verify_token_except("HTTPException")

(***************************************************************************)
(* Requests and responses                                                  *)
(***************************************************************************)

IdAbsent == "absent"    \* the envelope has no "id" member

\* An Origin header value: its scheme, the labels of its host and its port.
Origin(scheme, host, port) == [scheme |-> scheme, host |-> host, port |-> port]
NoOrigin == Origin("none", <<>>, "")      \* the call carries no Origin header
localhost == <<"localhost">>
loopback == <<"127", "0", "0", "1">>

\* origin.startswith("http://" + host): what follows the prefix is not looked at
startswith(origin, host) ==
    /\ origin.scheme = "http"
    /\ Len(origin.host) >= Len(host)
    /\ SubSeq(origin.host, 1, Len(host)) = host

\* origin_validation_middleware: TRUE when the call is passed to call_next.
\* step5.py, server.py and jwt_server.py register no such middleware;
\* step2.py turns down a call without Origin, step3.py .. step10.py let it in.
origin_validation_middleware(srv, path, origin) ==
    IF srv \in {"step5", "server", "jwt_server"} THEN TRUE
    ELSE IF path = "health" THEN TRUE
    ELSE IF origin = NoOrigin THEN srv # "step2"
    ELSE startswith(origin, localhost) \/ startswith(origin, loopback)

\* body: "ok" decodes into MCPRequest; "notjson" is not JSON; "nomethod" and
\* "badid" are JSON that MCPRequest(**body) rejects.
\* params: "valid"; "absent" (no params object); "badargs" (arguments that
\* EchoRequest rejects); "unknown_name" (a tool or prompt that does not exist).
Methods == {"initialize", "tools/list", "tools/call", "prompts/list", "prompts/get",
            "ping", "notifications/initialized", "method/unknown"}

\* HTTP response.  body: "result" and "error" are JSON-RPC envelopes, "ack"
\* is JSONResponse(status_code=202, content=None), "detail" the body of an
\* HTTPException, "forbidden" jwt_server's {"error": "Forbidden", ...},
\* "server_error" the reply to an exception nothing caught.
\* auth, authz and handler record what ran while the call was served.
Response(status, body, code, id, auth, authz, handler) ==
    [status |-> status, body |-> body, code |-> code, id |-> id,
     detail |-> "", challenge |-> FALSE,
     auth |-> auth, authz |-> authz, handler |-> handler]

NoResponse == Response(0, "none", 0, IdAbsent, "none", "none", "none")

\* the HTTPException raised by verify_token, rendered by FastAPI
AuthFailure(ti) ==
    [Response(ti.status, "detail", 0, IdAbsent, "fail", "none", "none")
        EXCEPT !.detail = ti.detail, !.challenge = ti.challenge]

\* the JSONResponse(status_code=403, content={"detail": ...}) of the
\* Origin middleware
OriginRejected ==
    [Response(403, "detail", 0, IdAbsent, "none", "none", "none")
        EXCEPT !.detail = "Origin not allowed"]

\* an exception that no handler of the endpoint catches
Unhandled(auth) == Response(500, "server_error", 0, IdAbsent, auth, "none", "none")

\* Success answering with a null id
Success_lostid(id, auth, authz, handler) ==
    Response(200, "result", 0, IdNone, auth, authz, handler)

\* JSONResponse(content={"jsonrpc": "2.0", "id": mcp_request.id, "result": result})
Success(id, auth, authz, handler) == Response(200, "result", 0, id, auth, authz, handler)
Ack(auth) == Response(202, "ack", 0, IdAbsent, auth, "none", "none")

\* the `except Exception` of the step4..step10 dispatchers
InternalError(id, auth, authz, handler) ==
    Response(500, "error", -32603, id, auth, authz, handler)

\* The exceptions the dispatchers catch: text is what str(e) gives.
Exception(type, text) == [type |-> type, text |-> text]

\* raise ValueError("Unsupported method")
UnsupportedMethod == Exception("ValueError", "Unsupported method")
\* mcp_request.params["name"] with params None
ParamsNotSubscriptable ==
    Exception("TypeError", "'NoneType' object is not subscriptable")
\* pydantic's ValidationError of EchoRequest(**arguments), MCPRequest(**body)
ValidationError(model) ==
    Exception("ValidationError", "1 validation error for " \o model)
\* json.loads on a body that is not JSON
JSONDecodeError ==
    Exception("JSONDecodeError", "Expecting value: line 1 column 1 (char 0)")

\* {"code": -32603, "message": str(e)}
InternalErrorOf(e, id, auth, authz, handler) ==
    [InternalError(id, auth, authz, handler) EXCEPT !.detail = e.text]

\* step8.py / step10.py forbidden_response
forbidden_response_step8(auth) ==
    Response(403, "error", -32001, IdAbsent, auth, "deny", "none")

\* jwt_server.py forbidden_response
forbidden_response_jwt_server(auth) ==
    Response(403, "forbidden", 0, IdAbsent, auth, "deny", "none")

AuthOf(ti) == IF ti.anonymous THEN "anonymous" ELSE "ok"

\* call_tool(mcp_request.params["name"], mcp_request.params["arguments"]) of
\* step4.py .. step10.py: subscripting an absent params raises before the
\* handler is entered; EchoRequest(**arguments) raises inside it
call_tool_steps(r, auth, authz) ==
    IF r.params = "absent"
    THEN InternalErrorOf(ParamsNotSubscriptable, r.id, auth, authz, "none")
    ELSE IF r.params = "badargs"
    THEN InternalErrorOf(ValidationError("EchoRequest"), r.id, auth, authz, "call_tool")
    ELSE Success(r.id, auth, authz, "call_tool")

\* get_prompt(mcp_request.params["name"], mcp_request.params.get("arguments"))
get_prompt_steps(r, auth, authz) ==
    IF r.params = "absent"
    THEN InternalErrorOf(ParamsNotSubscriptable, r.id, auth, authz, "none")
    ELSE Success(r.id, auth, authz, "get_prompt")

\* step2.py / step3.py handle_mcp_request
Dispatch_step2(r) ==
    IF r.body # "ok" THEN Unhandled("none")
    ELSE IF r.method = "ping" THEN Success(r.id, "none", "none", "none")
    ELSE Response(400, "error", -32601, r.id, "none", "none", "none")

\* step4.py / step5.py handle_mcp_request
Dispatch_step4(r) ==
    IF r.body # "ok" THEN Unhandled("none")
    ELSE IF r.id = IdNone THEN Ack("none")
    ELSE CASE r.method = "initialize" -> Success(r.id, "none", "none", "none")
           [] r.method = "tools/list" -> Success(r.id, "none", "none", "list_tools")
           [] r.method = "tools/call" -> call_tool_steps(r, "none", "none")
           [] OTHER -> InternalErrorOf(UnsupportedMethod, r.id, "none", "none", "none")

\* step6.py handle_mcp_request, once verify_token has returned ti
Dispatch_step6(r, ti) ==
    IF r.body # "ok" THEN Unhandled(AuthOf(ti))
    ELSE IF r.id = IdNone THEN Ack(AuthOf(ti))
    ELSE CASE r.method = "initialize" -> Success(r.id, AuthOf(ti), "none", "none")
           [] r.method = "tools/list" -> Success(r.id, AuthOf(ti), "none", "list_tools")
           [] r.method = "tools/call" -> call_tool_steps(r, AuthOf(ti), "none")
           [] r.method = "ping"       -> Success(r.id, AuthOf(ti), "none", "none")
           [] OTHER -> InternalErrorOf(UnsupportedMethod, r.id, AuthOf(ti), "none", "none")

\* step8.py handle_mcp_request, once verify_token has returned ti
Dispatch_step8(r, ti) ==
    LET a == AuthOf(ti)
        may(resource, action) == check_permission_step8(ti.scopes, ti.roles, resource, action)
    IN
    IF r.body # "ok" THEN Unhandled(a)
    ELSE IF r.id = IdNone THEN Ack(a)
    ELSE CASE r.method = "initialize" -> Success(r.id, a, "none", "none")
           [] r.method = "tools/list" ->
                IF ~may("tools", "read") THEN forbidden_response_step8(a)
                ELSE Success(r.id, a, "allow", "list_tools")
           [] r.method = "tools/call" ->
                IF ~may("tools", "execute") THEN forbidden_response_step8(a)
                ELSE call_tool_steps(r, a, "allow")
           [] r.method = "prompts/list" ->
                IF ~may("prompts", "read") THEN forbidden_response_step8(a)
                ELSE Success(r.id, a, "allow", "list_prompts")
           [] r.method = "prompts/get" ->
                IF ~may("prompts", "read") THEN forbidden_response_step8(a)
                ELSE get_prompt_steps(r, a, "allow")
           [] r.method = "ping" -> Success(r.id, a, "none", "none")
           [] OTHER -> InternalErrorOf(UnsupportedMethod, r.id, a, "none", "none")

\* step10.py handle_mcp_request, lines 448-463: the body is not JSON
ParseError_step10(e, a) ==
    [Response(400, "error", -32700, IdAbsent, a, "none", "none")
        EXCEPT !.detail = e.text]

\* step10.py handle_mcp_request, lines 466-474: MCPRequest(**body_json) fails
InvalidRequest_step10(e, a) ==
    [Response(400, "error", -32600, IdAbsent, a, "none", "none")
        EXCEPT !.detail = e.text]

\* step10.py handle_mcp_request, once verify_token has returned ti
Dispatch_step10(r, ti) ==
    LET a == AuthOf(ti)
        may(resource, action) == check_permission_step10(ti.scopes, resource, action)
    IN
    IF r.body = "notjson" THEN ParseError_step10(JSONDecodeError, a)
    ELSE IF r.body # "ok" THEN InvalidRequest_step10(ValidationError("MCPRequest"), a)
    ELSE IF r.id = IdNone THEN Ack(a)
    ELSE CASE r.method = "initialize" -> Success(r.id, a, "none", "none")
           [] r.method = "tools/list" ->
                IF ~may("tools", "read") THEN forbidden_response_step8(a)
                ELSE Success(r.id, a, "allow", "list_tools")
           [] r.method = "tools/call" ->
                IF ~may("tools", "execute") THEN forbidden_response_step8(a)
                ELSE call_tool_steps(r, a, "allow")
           [] r.method = "prompts/list" ->
                IF ~may("prompts", "read") THEN forbidden_response_step8(a)
                ELSE Success(r.id, a, "allow", "list_prompts")
           [] r.method = "prompts/get" ->
                IF ~may("prompts", "read") THEN forbidden_response_step8(a)
                ELSE get_prompt_steps(r, a, "allow")
           [] r.method = "ping" -> Success(r.id, a, "none", "none")
           [] OTHER -> InternalErrorOf(UnsupportedMethod, r.id, a, "none", "none")

\* jwt_server.py handle_call_tool never raises: an unknown or missing tool
\* name is answered with an isError result
handle_call_tool_jwt_server(r, a) == Success(r.id, a, "allow", "handle_call_tool")

\* jwt_server.py handle_get_prompt raises ValueError for every name but
\* "authenticated_prompt", and nothing in handle_mcp_request catches it
handle_get_prompt_jwt_server(r, a) ==
    IF r.params \in {"absent", "unknown_name"}
    THEN [Unhandled(a) EXCEPT !.authz = "allow", !.handler = "handle_get_prompt"]
    ELSE Success(r.id, a, "allow", "handle_get_prompt")

\* jwt_server.py handle_mcp_request, once verify_token has returned ti
Dispatch_jwt_server(r, ti) ==
    LET a == AuthOf(ti)
        may(resource, action) ==
            check_permission_jwt_server(ti.scopes, ti.roles, resource, action)
    IN
    IF r.body # "ok" THEN Unhandled(a)
    ELSE IF r.id = IdNone THEN Ack(a)
    ELSE CASE r.method = "initialize" -> Success(r.id, a, "none", "handle_initialize")
           [] r.method = "tools/list" ->
                IF ~may("tools", "read") THEN forbidden_response_jwt_server(a)
                ELSE Success(r.id, a, "allow", "handle_list_tools")
           [] r.method = "tools/call" ->
                IF ~may("tools", "execute") THEN forbidden_response_jwt_server(a)
                ELSE handle_call_tool_jwt_server(r, a)
           [] r.method = "prompts/list" ->
                IF ~may("prompts", "read") THEN forbidden_response_jwt_server(a)
                ELSE Success(r.id, a, "allow", "handle_list_prompts")
           [] r.method = "prompts/get" ->
                IF ~may("prompts", "read") THEN forbidden_response_jwt_server(a)
                ELSE handle_get_prompt_jwt_server(r, a)
           [] r.method = "ping" -> Success(r.id, a, "none", "none")
           [] OTHER -> Response(400, "error", -32601, r.id, a, "none", "none")

\* server.py: the exception that reaches the except block of
\* handle_mcp_request, raised by MCPRequest(**body) or by a handler
exception_server(r, handler) ==
    IF r.body # "ok" THEN ValidationError("MCPRequest")
    ELSE IF r.params = "absent"
    THEN Exception("ValueError", IF handler = "handle_call_tool"
                                 THEN "Tool name is required"
                                 ELSE "Prompt name is required")
    ELSE IF r.params = "unknown_name"
    THEN Exception("ValueError", IF handler = "handle_call_tool"
                                 THEN "Unknown tool: nosuch"
                                 ELSE "Unknown prompt: nosuch")
    ELSE ValidationError("EchoRequest")

\* server.py handle_mcp_request, lines 154-166: the id of the fault is read
\* back from the decoded body; with no decoded body the except block itself
\* fails on the unbound name
InternalError_server(r, handler) ==
    IF r.body = "notjson" THEN Unhandled("none")
    ELSE [Response(500, "error", -32603, IF r.body = "badid" THEN "badid" ELSE r.id,
                   "none", "none", handler)
             EXCEPT !.detail = "Internal error: " \o exception_server(r, handler).text]

\* server.py handle_call_tool / handle_get_prompt: a missing name, an unknown
\* name and arguments EchoRequest rejects all raise inside the handler
handle_with_params_server(r, handler) ==
    IF r.params = "valid" \/ (handler = "handle_get_prompt" /\ r.params = "badargs")
    THEN Success(r.id, "none", "none", handler)
    ELSE InternalError_server(r, handler)

\* server.py handle_mcp_request
Dispatch_server(r) ==
    IF r.body # "ok" THEN InternalError_server(r, "none")
    ELSE IF r.id = IdNone THEN Ack("none")
    ELSE CASE r.method = "initialize" -> Success(r.id, "none", "none", "handle_initialize")
           [] r.method = "tools/list" -> Success(r.id, "none", "none", "handle_list_tools")
           [] r.method = "tools/call" -> handle_with_params_server(r, "handle_call_tool")
           [] r.method = "prompts/list" -> Success(r.id, "none", "none", "handle_list_prompts")
           [] r.method = "prompts/get" -> handle_with_params_server(r, "handle_get_prompt")
           [] r.method = "ping" -> Success(r.id, "none", "none", "none")
           [] OTHER -> Response(400, "error", -32601, r.id, "none", "none", "none")

(***************************************************************************)
(* The calls a client may send                                             *)
(***************************************************************************)

MaxTime == 5    \* the clock runs from 0 to MaxTime minutes

Calls == {1, 2}
SeqCalls == {1}

Ids == {IdNone, "7", "abc"}

ParamsFor(m) ==
    IF m \in {"tools/call", "prompts/get"}
    THEN {"valid", "absent", "badargs", "unknown_name"}
    ELSE {"valid"}

Envelopes ==
    {[body |-> "ok", id |-> i, method |-> m, params |-> p] :
        i \in Ids, m \in Methods, p \in {"valid", "absent", "badargs", "unknown_name"}}
    \cup {[body |-> b, id |-> i, method |-> "ping", params |-> "valid"] :
        b \in {"notjson", "nomethod", "badid"}, i \in Ids}

WellFormed(e) == e.body # "ok" \/ e.params \in ParamsFor(e.method)

GrantedScopes == {"mcp:read", "mcp:tools", "mcp:prompts"}

\* tokens that verify, one per scope set and role set
AuthzTokens(srv) ==
    {Token(srv, s, ro) : s \in SUBSET GrantedScopes, ro \in {{"user"}, {"user", "admin"}}}

\* tokens with one thing wrong (or, for iat, unusual) each
DefectTokens(srv) ==
    LET t == Token(srv, GrantedScopes, {"user"})
    IN {[t EXCEPT !.fmt = "empty"], [t EXCEPT !.fmt = "ctrl"], [t EXCEPT !.fmt = "garbage"],
        [t EXCEPT !.kid = "none"],
        [t EXCEPT !.kid = "k2", !.sig = "K2"],
        [t EXCEPT !.kid = "k9", !.sig = "Kx"],
        [t EXCEPT !.sig = "Kx"],
        [t EXCEPT !.expired = TRUE],
        [t EXCEPT !.iss = "http://evil.example/realms/x"],
        [t EXCEPT !.aud = {"other-service"}],
        [t EXCEPT !.has_aud = FALSE, !.aud = {}],
        [t EXCEPT !.iat_future = TRUE],
        [t EXCEPT !.expired = TRUE, !.sig = "Kx"],
        [t EXCEPT !.expired = TRUE, !.iss = "http://evil.example/realms/x"],
        [t EXCEPT !.expired = TRUE, !.aud = {"other-service"}],
        [t EXCEPT !.iss = "http://evil.example/realms/x", !.aud = {"other-service"}],
        [t EXCEPT !.aud = {"other-service", JWT_AUDIENCE(srv)[1]}]}

\* tokens that carry the space-delimited `scope` claim, with or without the
\* `scopes` list claim (generate_token.py writes both)
ScopeClaimTokens(srv) ==
    LET t == Token(srv, {}, {"user"})
    IN {[t EXCEPT !.has_scope = TRUE, !.scope = {"mcp:read", "mcp:tools"},
                  !.scopes = {"mcp:read", "mcp:tools"}],
        [t EXCEPT !.has_scope = TRUE, !.scope = {"mcp:read"}, !.scopes = {"mcp:tools"}],
        [t EXCEPT !.has_scope = TRUE, !.scope = {"mcp:tools", "mcp:prompts"},
                  !.has_scopes = FALSE]}

\* a token that verifies and grants nothing: scopes [] and roles []
BareToken(srv) == Token(srv, {}, {})

Credentials(srv) ==
    IF srv \in OpenServers THEN {NoCredentials, Token(srv, GrantedScopes, {"user"})}
    ELSE {NoCredentials, BareToken(srv)} \cup AuthzTokens(srv) \cup DefectTokens(srv)
            \cup ScopeClaimTokens(srv)

Origins ==
    {NoOrigin,
     Origin("http", localhost, "3000"),
     Origin("http", loopback, "8080"),
     Origin("https", localhost, ""),
     Origin("http", <<"evil", "example">>, ""),
     Origin("http", <<"localhost", "evil", "example">>, ""),
     Origin("http", <<"127", "0", "0", "1", "evil", "example">>, "8080")}

\* the Origin the calls carry when the claim at hand is not about origins
DefaultOrigin(srv) == IF srv = "step2" THEN Origin("http", localhost, "3000") ELSE NoOrigin

\* the envelopes and credentials sent with every Origin
OriginEnvelopes ==
    {e \in Envelopes : /\ e.id = "7" /\ e.params = "valid"
                       /\ e.body \in {"ok", "notjson"}
                       /\ e.method \in {"ping", "tools/list"}}

OriginCredentials(srv) == {NoCredentials, Token(srv, GrantedScopes, {"user"})}

Requests(srv) ==
    {[endpoint |-> "mcp", body |-> e.body, id |-> e.id, method |-> e.method,
      params |-> e.params, cred |-> c, origin |-> DefaultOrigin(srv)] :
        e \in {x \in Envelopes : WellFormed(x)}, c \in Credentials(srv)}
    \cup
    {[endpoint |-> "mcp", body |-> e.body, id |-> e.id, method |-> e.method,
      params |-> e.params, cred |-> c, origin |-> o] :
        e \in OriginEnvelopes, c \in OriginCredentials(srv), o \in Origins}

HealthRequest ==
    [endpoint |-> "health", body |-> "ok", id |-> IdNone, method |-> "ping",
     params |-> "valid", cred |-> NoCredentials, origin |-> NoOrigin]

NoRequest == [HealthRequest EXCEPT !.endpoint = "none"]

(***************************************************************************)
(* State machine                                                           *)
(***************************************************************************)

\* step11.py: the authorization-server metadata, by the endpoints it names
NoMetadata ==
    [authorization_endpoint |-> FALSE, token_endpoint |-> FALSE,
     registration_endpoint |-> FALSE]

Metadata ==
    [authorization_endpoint : BOOLEAN, token_endpoint : BOOLEAN,
     registration_endpoint : BOOLEAN]

\* the redirect URL pasted at the prompt: its code and state parameters,
\* "absent" when the query has none
NoRedirect == [code |-> "absent", state |-> "absent"]
RedirectUrls == [code : {"absent", "c1"}, state : {"absent", "s1", "s2"}]

\* main() of step11.py: step is where it stands, done the steps it has
\* completed, creds whether client_credentials.json exists, state the value
\* build_authorization_url returned, token_requests the POSTs to the token
\* endpoint
ClientIdle ==
    [step |-> "idle", creds |-> FALSE, done |-> {}, metadata |-> NoMetadata,
     state |-> "none", redirect |-> NoRedirect, code |-> "none",
     token_requests |-> 0, access_token |-> FALSE]

InitCalls ==
    /\ pc = [c \in Calls |-> "idle"]
    /\ req = [c \in Calls |-> NoRequest]
    /\ resp = [c \in Calls |-> NoResponse]
    /\ fetch_now = [c \in Calls |-> NoTime]
    /\ fetches = [c \in Calls |-> 0]
    /\ fetch_result = [c \in Calls |-> "none"]
    /\ call_jwks = [c \in Calls |-> NoData]

\* __init__: an empty cache that was never filled; load_public_key may or
\* may not find mcp_public_key.pem (step6.py, step8.py)
Init ==
    /\ server \in Servers
    /\ public_key \in (IF server \in {"step6", "step8"} THEN BOOLEAN ELSE {TRUE})
    /\ jwks_cache = DocEmpty
    /\ jwks_cache_time = NoTime
    /\ now = 0
    /\ InitCalls
    /\ perm = PermIdle
    /\ client = ClientIdle

Finish(c, r, response) ==
    /\ pc' = [pc EXCEPT ![c] = "done"]
    /\ req' = [req EXCEPT ![c] = r]
    /\ resp' = [resp EXCEPT ![c] = response]

\* what a protected local-key server answers: verify_token is a dependency
\* of the endpoint, resolved before the endpoint body runs
Serve_local(srv, r, has_key) ==
    LET ti == IF srv = "jwt_server" THEN verify_token_jwt_server(r.cred)
              ELSE verify_token_step8(r.cred, has_key)
    IN IF ~ti.ok THEN AuthFailure(ti)
       ELSE CASE srv = "step6" -> Dispatch_step6(r, ti)
              [] srv = "step8" -> Dispatch_step8(r, ti)
              [] srv = "jwt_server" -> Dispatch_jwt_server(r, ti)

Serve_open(srv, r) ==
    CASE srv \in {"step2", "step3"} -> Dispatch_step2(r)
      [] srv \in {"step4", "step5"} -> Dispatch_step4(r)
      [] srv = "server" -> Dispatch_server(r)

\* step10.py: the rest of the call once the key set is in hand
Serve_step10(r, jwks_data) ==
    LET ti == verify_token_step10_post(r.cred, jwks_data)
    IN IF ~ti.ok THEN AuthFailure(ti) ELSE Dispatch_step10(r, ti)

\* step10.py health(): jwks_available in the detail
Health_step10(available) ==
    [Response(200, "health", 0, IdAbsent, "none", "none", "none")
        EXCEPT !.detail = IF available THEN "jwks_available" ELSE "jwks_unavailable"]

\* POST /mcp on a server without token verification
ReceiveOpen(c) ==
    /\ server \in OpenServers
    /\ pc[c] = "idle"
    /\ \E r \in Requests(server) :
        IF origin_validation_middleware(server, r.endpoint, r.origin)
        THEN Finish(c, r, Serve_open(server, r))
        ELSE Finish(c, r, OriginRejected)
    /\ UNCHANGED <<server, public_key, jwks_cache, jwks_cache_time, now,
                   fetchVars, perm, client>>

\* POST /mcp on step6.py, step8.py, jwt_server.py
ReceiveLocal(c) ==
    /\ server \in ProtectedServers \ {"step10"}
    /\ pc[c] = "idle"
    /\ \E r \in Requests(server) :
        IF origin_validation_middleware(server, r.endpoint, r.origin)
        THEN Finish(c, r, Serve_local(server, r, public_key))
        ELSE Finish(c, r, OriginRejected)
    /\ UNCHANGED <<server, public_key, jwks_cache, jwks_cache_time, now,
                   fetchVars, perm, client>>

\* a fetch that is tried a second time when the call starts
StartFetch_twice(c, r) ==
    /\ pc' = [pc EXCEPT ![c] = "fetching"]
    /\ req' = [req EXCEPT ![c] = r]
    /\ fetch_now' = [fetch_now EXCEPT ![c] = now]
    /\ fetches' = [fetches EXCEPT ![c] = @ + 2]
    /\ UNCHANGED <<resp, fetch_result, call_jwks>>

\* step10.py fetch_keycloak_jwks up to `await client.get(jwks_url)`
StartFetch(c, r) ==
    /\ pc' = [pc EXCEPT ![c] = "fetching"]
    /\ req' = [req EXCEPT ![c] = r]
    /\ fetch_now' = [fetch_now EXCEPT ![c] = now]
    /\ fetches' = [fetches EXCEPT ![c] = @ + 1]
    /\ UNCHANGED <<resp, fetch_result, call_jwks>>

\* POST /mcp on step10.py, up to the response or to the await of the fetch,
\* for a call drawn from the set sent
ReceiveRemoteOf(c, sent) ==
    /\ server = "step10"
    /\ pc[c] = "idle"
    /\ \E r \in sent :
        LET pre == verify_token_step10_pre(r.cred)
        IN IF ~origin_validation_middleware(server, r.endpoint, r.origin)
           THEN Finish(c, r, OriginRejected) /\ UNCHANGED fetchVars
           ELSE IF pre.detail # "resolve"
           THEN Finish(c, r, AuthFailure(pre)) /\ UNCHANGED fetchVars
           ELSE IF cache_valid(now)
           THEN /\ Finish(c, r, Serve_step10(r, jwks_cache))
                /\ call_jwks' = [call_jwks EXCEPT ![c] = jwks_cache]
                /\ UNCHANGED <<fetch_now, fetches, fetch_result>>
           ELSE StartFetch(c, r)
    /\ UNCHANGED <<server, public_key, jwks_cache, jwks_cache_time, now, perm, client>>

ReceiveRemote(c) == ReceiveRemoteOf(c, Requests(server))

\* GET /health on step10.py
ReceiveHealth(c) ==
    /\ server = "step10"
    /\ pc[c] = "idle"
    /\ IF cache_valid(now)
       THEN /\ Finish(c, HealthRequest, Health_step10(jwks_cache.keys # {}))
            /\ call_jwks' = [call_jwks EXCEPT ![c] = jwks_cache]
            /\ UNCHANGED <<fetch_now, fetches, fetch_result>>
       ELSE StartFetch(c, HealthRequest)
    /\ UNCHANGED <<server, public_key, jwks_cache, jwks_cache_time, now, perm, client>>

\* the provider answers 200 with a key-set document: lines 88-96
FetchSucceeds(c) ==
    /\ pc[c] = "fetching"
    /\ \E doc \in Docs :
        /\ cache_store(doc, fetch_now[c])
        /\ call_jwks' = [call_jwks EXCEPT ![c] = doc]
        /\ IF req[c].endpoint = "health"
           THEN Finish(c, req[c], Health_step10(doc.keys # {}))
           ELSE Finish(c, req[c], Serve_step10(req[c], doc))
    /\ fetch_result' = [fetch_result EXCEPT ![c] = "ok"]
    /\ UNCHANGED <<server, public_key, now, fetch_now, fetches, perm, client>>

\* a failed fetch falls back on the set that is cached, however old
FetchFails_stale(c) ==
    /\ pc[c] = "fetching"
    /\ IF req[c].endpoint = "health"
       THEN Finish(c, req[c], Health_step10(FALSE))
       ELSE Finish(c, req[c], Serve_step10(req[c], jwks_cache))
    /\ fetch_result' = [fetch_result EXCEPT ![c] = "failed"]
    /\ UNCHANGED <<server, public_key, jwks_cache, jwks_cache_time, now,
                   fetch_now, fetches, call_jwks, perm, client>>

\* a fetch without a timeout: an endpoint that stays silent is waited for
FetchFails_never(c) ==
    /\ pc[c] = "fetching"
    /\ FALSE
    /\ UNCHANGED vars

\* the provider answers with an error status, or not at all: lines 98-103
FetchFails(c) ==
    /\ pc[c] = "fetching"
    /\ IF req[c].endpoint = "health"
       THEN Finish(c, req[c], Health_step10(FALSE))
       ELSE Finish(c, req[c], AuthFailure(verify_token_step10_fetch_failed))
    /\ fetch_result' = [fetch_result EXCEPT ![c] = "failed"]
    /\ UNCHANGED <<server, public_key, jwks_cache, jwks_cache_time, now,
                   fetch_now, fetches, call_jwks, perm, client>>

\* the task of the call is cancelled while it awaits client.get (line 87):
\* CancelledError is not an Exception, so fetch_keycloak_jwks and
\* verify_token let it through and the call ends without a response;
\* the bare `except:` of health() catches it and health() goes on
Cancel(c) ==
    /\ pc[c] = "fetching"
    /\ IF req[c].endpoint = "health"
       THEN /\ Finish(c, req[c], Health_step10(FALSE))
            /\ fetch_result' = [fetch_result EXCEPT ![c] = "failed"]
            /\ UNCHANGED <<fetch_now, fetches, call_jwks>>
       ELSE /\ pc' = [pc EXCEPT ![c] = "idle"]
            /\ req' = [req EXCEPT ![c] = NoRequest]
            /\ fetch_now' = [fetch_now EXCEPT ![c] = NoTime]
            /\ fetches' = [fetches EXCEPT ![c] = 0]
            /\ UNCHANGED <<resp, fetch_result, call_jwks>>
    /\ UNCHANGED <<server, public_key, jwks_cache, jwks_cache_time, now, perm, client>>

\* the response is sent and the call's state is dropped
Respond(c) ==
    /\ pc[c] = "done"
    /\ pc' = [pc EXCEPT ![c] = "idle"]
    /\ req' = [req EXCEPT ![c] = NoRequest]
    /\ resp' = [resp EXCEPT ![c] = NoResponse]
    /\ fetch_now' = [fetch_now EXCEPT ![c] = NoTime]
    /\ fetches' = [fetches EXCEPT ![c] = 0]
    /\ fetch_result' = [fetch_result EXCEPT ![c] = "none"]
    /\ call_jwks' = [call_jwks EXCEPT ![c] = NoData]
    /\ UNCHANGED <<server, public_key, jwks_cache, jwks_cache_time, now, perm, client>>

\* time passes
Tick ==
    /\ now < MaxTime
    /\ now' = now + 1
    /\ UNCHANGED <<server, public_key, jwks_cache, jwks_cache_time, callVars, perm, client>>

\* calls are served one at a time
Next ==
    \/ \E c \in SeqCalls : ReceiveOpen(c)
    \/ \E c \in SeqCalls : ReceiveLocal(c)
    \/ \E c \in SeqCalls : ReceiveRemote(c)
    \/ \E c \in SeqCalls : ReceiveHealth(c)
    \/ \E c \in SeqCalls : FetchSucceeds(c)
    \/ \E c \in SeqCalls : FetchFails(c)
    \/ \E c \in SeqCalls : Respond(c)
    \/ Tick

Spec == Init /\ [][Next]_vars

(***************************************************************************)
(* step10.py with calls in flight at the same time: the handlers are       *)
(* coroutines on one event loop and give way at `await client.get`         *)
(***************************************************************************)

\* the calls sent: one token per key, the envelope does not matter here
ConcurrentRequests ==
    {r \in Requests("step10") :
        /\ r.origin = NoOrigin /\ r.body = "ok" /\ r.method = "ping" /\ r.id = "7"
        /\ r.cred \in {Token("step10", GrantedScopes, {"user"}),
                       [Token("step10", GrantedScopes, {"user"})
                            EXCEPT !.kid = "k2", !.sig = "K2"]}}

InitConcurrent ==
    /\ server = "step10"
    /\ public_key = TRUE
    /\ jwks_cache = DocEmpty
    /\ jwks_cache_time = NoTime
    /\ now = 0
    /\ InitCalls
    /\ perm = PermIdle
    /\ client = ClientIdle

NextConcurrent ==
    \/ \E c \in Calls : ReceiveRemoteOf(c, ConcurrentRequests)
    \/ \E c \in Calls : ReceiveHealth(c)
    \/ \E c \in Calls : FetchSucceeds(c)
    \/ \E c \in Calls : FetchFails(c)
    \/ \E c \in Calls : Cancel(c)
    \/ \E c \in Calls : Respond(c)
    \/ Tick

SpecConcurrent == InitConcurrent /\ [][NextConcurrent]_vars

\* The POST /mcp calls when none of them is cancelled.  httpx.AsyncClient() is
\* built with the library's default timeout, so a GET that gets no answer
\* raises and FetchFails is taken: that step is not put off forever, and
\* neither is the sending of a response that is ready.
LiveRequests ==
    {r \in ConcurrentRequests : r.cred = Token("step10", GrantedScopes, {"user"})}

NextLive ==
    \/ \E c \in Calls : ReceiveRemoteOf(c, LiveRequests)
    \/ \E c \in Calls : FetchSucceeds(c)
    \/ \E c \in Calls : FetchFails(c)
    \/ \E c \in Calls : Respond(c)
    \/ Tick

FairLive == \A c \in Calls : WF_vars(FetchFails(c)) /\ WF_vars(Respond(c))

SpecLive == InitConcurrent /\ [][NextLive]_vars /\ FairLive

(***************************************************************************)
(* step11.py: the OAuth client, main() step by step                        *)
(***************************************************************************)

\* the step is completed and main() goes on to the next
Advance(step, next) ==
    [client EXCEPT !.step = next, !.done = @ \cup {step}]

\* main() returns, or an exception reaches its `except Exception`
Stop == [client EXCEPT !.step = "stopped"]

\* creds = load_client_credentials()
LoadCredentials ==
    /\ client.step = "start"
    /\ client' = IF client.creds THEN Advance("credentials", "challenge")
                 ELSE [client EXCEPT !.step = "challenge"]
    /\ UNCHANGED serverVars

\* resp = post_tools_list(); anything but 401 ends the run
PostToolsList ==
    /\ client.step = "challenge"
    /\ \E status \in {401, 200} :
        client' = IF status = 401 THEN Advance("challenge", "resource_metadata") ELSE Stop
    /\ UNCHANGED serverVars

\* parse_www_authenticate and fetch_protected_resource_metadata
FetchResourceMetadata ==
    /\ client.step = "resource_metadata"
    /\ \E ok \in BOOLEAN :
        client' = IF ok THEN Advance("resource_metadata", "authz_metadata") ELSE Stop
    /\ UNCHANGED serverVars

\* extract_authorization_server and fetch_authorization_server_metadata
FetchAuthorizationServerMetadata ==
    /\ client.step = "authz_metadata"
    /\ \/ client' = Stop
       \/ \E md \in Metadata :
            client' = [Advance("authz_metadata",
                               IF client.creds THEN "url" ELSE "registration")
                          EXCEPT !.metadata = md]
    /\ UNCHANGED serverVars

\* reg_data = perform_dcr_request(authz_metadata)
PerformDcrRequest ==
    /\ client.step = "registration"
    /\ \E registered \in BOOLEAN :
        client' = IF client.metadata.registration_endpoint /\ registered
                  THEN Advance("credentials", "url") ELSE Stop
    /\ UNCHANGED serverVars

\* state = build_authorization_url(authz_metadata, client_id)
BuildAuthorizationUrl ==
    /\ client.step = "url"
    /\ client' = IF client.metadata.authorization_endpoint
                 THEN [Advance("url", "redirect") EXCEPT !.state = "s1"]
                 ELSE Stop
    /\ UNCHANGED serverVars

\* redirect_url = prompt_for_redirect_url(): whatever is pasted
PromptForRedirectUrl ==
    /\ client.step = "redirect"
    /\ \E url \in RedirectUrls :
        client' = [Advance("redirect", "code") EXCEPT !.redirect = url]
    /\ UNCHANGED serverVars

\* extract_code_from_redirect_url(redirect_url, expected_state): None
\* without a code; a state that differs is printed as a warning and the
\* code is returned all the same
extract_code_from_redirect_url(redirect_url, expected_state) ==
    IF redirect_url.code = "absent" THEN "none" ELSE redirect_url.code

ExtractCode ==
    /\ client.step = "code"
    /\ LET code == extract_code_from_redirect_url(client.redirect, client.state)
       IN client' = IF code = "none" THEN Stop
                    ELSE [Advance("code", "exchange") EXCEPT !.code = code]
    /\ UNCHANGED serverVars

\* access_token = exchange_code_for_token(...): one POST to the token
\* endpoint if the metadata names one
ExchangeCodeForToken ==
    /\ client.step = "exchange"
    /\ IF ~client.metadata.token_endpoint THEN client' = Stop
       ELSE \E granted \in BOOLEAN :
            client' = IF granted
                      THEN [Advance("exchange", "tools_list")
                               EXCEPT !.token_requests = @ + 1, !.access_token = TRUE]
                      ELSE [Stop EXCEPT !.token_requests = @ + 1]
    /\ UNCHANGED serverVars

\* mcp_tools_list_with_token(access_token)
McpToolsListWithToken ==
    /\ client.step = "tools_list"
    /\ client' = Advance("tools_list", "stopped")
    /\ UNCHANGED serverVars

InitClient ==
    /\ server = "step10"
    /\ public_key = TRUE
    /\ jwks_cache = DocEmpty
    /\ jwks_cache_time = NoTime
    /\ now = 0
    /\ InitCalls
    /\ perm = PermIdle
    /\ \E creds \in BOOLEAN : client = [ClientIdle EXCEPT !.step = "start", !.creds = creds]

NextClient ==
    \/ LoadCredentials
    \/ PostToolsList
    \/ FetchResourceMetadata
    \/ FetchAuthorizationServerMetadata
    \/ PerformDcrRequest
    \/ BuildAuthorizationUrl
    \/ PromptForRedirectUrl
    \/ ExtractCode
    \/ ExchangeCodeForToken
    \/ McpToolsListWithToken

SpecClient == InitClient /\ [][NextClient]_vars

(***************************************************************************)
(* The authorization policy on its own: every input, then the decision     *)
(***************************************************************************)

InitPolicy ==
    /\ server = "step8"
    /\ public_key = TRUE
    /\ jwks_cache = DocEmpty
    /\ jwks_cache_time = NoTime
    /\ now = 0
    /\ InitCalls
    /\ perm \in PermInputs
    /\ client = ClientIdle

CheckPermission ==
    /\ perm.result = "unchecked"
    /\ perm' = [perm EXCEPT !.result =
                  IF Allow(perm.srv, perm.scopes, perm.roles, perm.resource, perm.action)
                  THEN "allow" ELSE "deny"]
    /\ UNCHANGED <<server, public_key, jwks_cache, jwks_cache_time, now, callVars, client>>

NextPolicy == CheckPermission

SpecPolicy == InitPolicy /\ [][NextPolicy]_vars

(***************************************************************************)
(* Properties                                                              *)
(***************************************************************************)

\* a POST /mcp call that has its response
Terminal(c) == pc[c] = "done" /\ req[c].endpoint = "mcp"

\* ... and that the Origin middleware passed on to the endpoint
Done(c) == Terminal(c) /\ resp[c] # OriginRejected
Notification(c) == Done(c) /\ req[c].body = "ok" /\ req[c].id = IdNone
Request(c) == Done(c) /\ req[c].body = "ok" /\ req[c].id # IdNone
Acked(c) == resp[c].status = 202 /\ resp[c].body = "ack"

\* C1: in the token-protected servers a call without id is acknowledged
\* with 202 whatever credential it carries (valid, invalid or none): no
\* verification fault is returned for it, and neither an authorization
\* check nor a handler runs.
C1_NotificationSkipsAuthentication ==
    \A c \in Calls :
        (Notification(c) /\ server \in ProtectedServers)
        => /\ Acked(c)
           /\ resp[c].auth # "fail"
           /\ resp[c].authz = "none"
           /\ resp[c].handler = "none"

\* the key-id of the call's token is listed in the cached key set
KidCached(c) == \E k \in jwks_cache.keys : k[1] = req[c].cred.kid

\* the call on step10.py got as far as asking for the key set
Resolved(c) ==
    /\ server = "step10"
    /\ Done(c)
    /\ verify_token_step10_pre(req[c].cred).detail = "resolve"

\* C2: on step10.py a verification whose key-id is missing from the key set
\* it ends up with has fetched the key set exactly once on the way: a miss
\* against the cached set is followed by one re-fetch before the failure.
C2_KeyMissRefetchesOnce ==
    \A c \in Calls : (Resolved(c) /\ ~KidCached(c)) => fetches[c] = 1

\* C3: on step10.py no key-set fetch is started less than the TTL after the
\* fetch that filled the cache, whatever document that fetch returned.
C3_NoFetchWithinTtl ==
    \A c \in Calls :
        pc[c] = "fetching"
        => \/ jwks_cache_time = NoTime
           \/ fetch_now[c] - jwks_cache_time >= jwks_cache_duration

\* C4: on step10.py a verification whose key-set fetch failed is answered
\* 503, never with the 401 of an invalid credential.
C4_FetchFaultIsServiceUnavailable ==
    \A c \in Calls :
        (server = "step10" /\ Done(c) /\ fetch_result[c] = "failed")
        => resp[c].status = 503

Decided == perm.result \in {"allow", "deny"}
ExactScope == ScopeFor(perm.resource) \in perm.scopes

\* C5: under every policy a role set with the admin marker is allowed every
\* (resource, action) pair, whatever the scopes.
C5_AdminAllowedEverywhere ==
    (Decided /\ "admin" \in perm.roles) => perm.result = "allow"

\* C6: the strict policy of step10.py allows exactly when mcp:<resource> is
\* held, or the action is read, mcp:read is held and the resource is neither
\* tools nor prompts; so mcp:read alone is denied (tools, read) and
\* (prompts, read) and allowed read elsewhere, and the resource-qualified
\* scope allows every pair.
C6_StrictPolicy ==
    (Decided /\ perm.srv = "step10")
    => /\ perm.result = "allow"
            <=> \/ ExactScope
                \/ /\ perm.action = "read"
                   /\ "mcp:read" \in perm.scopes
                   /\ perm.resource \notin {"tools", "prompts"}
       /\ (perm.scopes = {"mcp:read"} /\ perm.action = "read")
            => (perm.result = "deny" <=> perm.resource \in {"tools", "prompts"})
       /\ ExactScope => perm.result = "allow"

C6_Witness ==
    /\ perm.srv = "step10"
    /\ perm.scopes = {"mcp:read"}
    /\ perm.resource = "tools"
    /\ perm.action = "read"
    /\ perm.result = "deny"

Permissive == Decided /\ perm.srv \in {"step8", "jwt_server"}

C7_Rule ==
    perm.result = "allow"
        <=> \/ "admin" \in perm.roles
            \/ ExactScope
            \/ perm.action = "read" /\ "mcp:read" \in perm.scopes

C7_ToolsOnly ==
    (perm.scopes = {"mcp:tools"} /\ "admin" \notin perm.roles)
    => /\ (perm.resource = "tools" /\ perm.action = "execute") => perm.result = "allow"
       /\ (perm.resource = "prompts" /\ perm.action = "read") => perm.result = "deny"

C7_ReadOnly == perm.scopes = {"mcp:read"} /\ "admin" \notin perm.roles

\* C7 as stated: the permissive policy allows exactly when admin is a role,
\* or mcp:<resource> is held, or the action is read and mcp:read is held;
\* mcp:tools alone is allowed (tools, execute) and denied (prompts, read);
\* mcp:read alone is allowed every read and denied every execute.
C7_PermissivePolicy_AsStated ==
    Permissive
    => /\ C7_Rule
       /\ C7_ToolsOnly
       /\ C7_ReadOnly => (perm.result = "allow" <=> perm.action = "read")

\* C7, amended: as above, but mcp:read alone is denied execute only on the
\* resources other than the one named "read", whose resource-qualified
\* scope mcp:read is.
C7_PermissivePolicy ==
    Permissive
    => /\ C7_Rule
       /\ C7_ToolsOnly
       /\ C7_ReadOnly
            => /\ perm.action = "read" => perm.result = "allow"
               /\ (perm.action = "execute" /\ perm.resource # "read")
                    => perm.result = "deny"
               /\ (perm.action = "execute" /\ perm.resource = "read")
                    => perm.result = "allow"

C7_Witness ==
    /\ perm.srv = "step8"
    /\ perm.scopes = {"mcp:read"}
    /\ perm.roles = {"user"}
    /\ perm.resource = "read"
    /\ perm.action = "execute"
    /\ perm.result = "allow"

\* the methods the dispatcher of a server has a branch for
KnownMethods(srv) ==
    CASE srv \in {"step2", "step3"} -> {"ping"}
      [] srv \in {"step4", "step5"} -> {"initialize", "tools/list", "tools/call"}
      [] srv = "step6" -> {"initialize", "tools/list", "tools/call", "ping"}
      [] OTHER -> {"initialize", "tools/list", "tools/call", "prompts/list",
                   "prompts/get", "ping"}

\* C8: a request with an id that names a method without handler is answered,
\* once authenticated where the server is protected, with a fault that
\* carries the request's id and the code -32601.
C8_UnknownMethodIsMethodNotFound ==
    \A c \in Calls :
        (Request(c) /\ req[c].method \notin KnownMethods(server) /\ resp[c].auth # "fail")
        => /\ resp[c].body = "error"
           /\ resp[c].code = -32601
           /\ resp[c].id = req[c].id

\* C9: in every server a call without id that was not turned away by token
\* verification gets the 202 acknowledgment, whatever its method: no result
\* envelope, no fault envelope, and no handler runs.
C9_NotificationIsAcked ==
    \A c \in Calls :
        (Notification(c) /\ resp[c].auth # "fail")
        => /\ Acked(c)
           /\ resp[c].body \notin {"result", "error"}
           /\ resp[c].handler = "none"

\* C10: every authorization denial is answered 403 with a JSON-RPC fault
\* whose code is -32001, a code outside the protocol-reserved ones.
C10_DenialIsPermissionFault ==
    \A c \in Calls :
        (Done(c) /\ resp[c].authz = "deny")
        => /\ resp[c].status = 403
           /\ resp[c].body = "error"
           /\ resp[c].code = -32001
           /\ resp[c].code \notin {-32700, -32600, -32601, -32603}

\* the ClaimSet verify_token returned for a call that passed verification
ClaimSet(c) ==
    CASE server = "step10" -> verify_token_step10_post(req[c].cred, jwks_cache)
      [] server = "jwt_server" -> verify_token_jwt_server(req[c].cred)
      [] OTHER -> verify_token_step8(req[c].cred, public_key)

\* the call passed token verification with a credential (not anonymously)
VerifiedCall(c) == Done(c) /\ resp[c].auth = "ok"

\* C11: in the servers that enforce scopes, a tools/call request with valid
\* arguments from a verified ClaimSet holding mcp:tools is authorized, the
\* tool handler runs, and the answer is a success envelope with the
\* request's id; and every success envelope of every server carries the id
\* of the request it answers.
C11_ToolCallSucceedsWithId ==
    \A c \in Calls :
        /\ (/\ Request(c) /\ VerifiedCall(c) /\ server \in PolicyServers
            /\ req[c].method = "tools/call" /\ req[c].params = "valid"
            /\ "mcp:tools" \in ClaimSet(c).scopes)
           => /\ resp[c].status = 200
              /\ resp[c].body = "result"
              /\ resp[c].id = req[c].id
              /\ resp[c].authz = "allow"
              /\ resp[c].handler \in {"call_tool", "handle_call_tool"}
        /\ (Done(c) /\ resp[c].body = "result") => resp[c].id = req[c].id

C11_Witness ==
    /\ server = "step10" /\ Request(1) /\ VerifiedCall(1)
    /\ req[1].method = "tools/call" /\ req[1].params = "valid"
    /\ req[1].id = "abc"
    /\ ClaimSet(1).scopes = {"mcp:read", "mcp:tools"}
    /\ resp[1].body = "result" /\ resp[1].id = "abc"
    /\ resp[1].handler = "call_tool"

\* the union of the token's `scope` string claim and `scopes` list claim
ScopeUnion(token) ==
    (IF token.has_scope THEN token.scope ELSE {})
        \cup (IF token.has_scopes THEN token.scopes ELSE {})

\* C12: in the servers that enforce scopes, the scopes of the ClaimSet the
\* dispatcher authorizes against are the union of the verified token's
\* `scope` string claim and its `scopes` list claim.
C12_ScopesAreUnionOfClaims ==
    \A c \in Calls :
        (VerifiedCall(c) /\ server \in PolicyServers)
        => ClaimSet(c).scopes = ScopeUnion(req[c].cred)

\* the token of the call is signed by "Kx", a key no server trusts: it is
\* neither the local key pair nor a key of any provider document
UntrustedSignature(c) ==
    /\ req[c].cred.fmt = "jwt"
    /\ req[c].cred.sig = "Kx"

\* C13: in every protected server and configuration, a call whose token is
\* signed by an untrusted key fails verification: no ClaimSet, anonymous or
\* not, is returned for it and no handler is reached.
C13_UntrustedKeyNeverVerifies ==
    \A c \in Calls :
        (Done(c) /\ server \in ProtectedServers /\ UntrustedSignature(c))
        => /\ resp[c].auth = "fail"
           /\ resp[c].status = 401
           /\ resp[c].handler = "none"

\* the body of the call does not decode into an MCPRequest
Undecodable(c) == Done(c) /\ req[c].body # "ok"

\* C14: in step8.py, step10.py, jwt_server.py and server.py a call whose body
\* does not decode into an envelope (not JSON, no string method, an id that
\* is neither string nor integer) is answered, once past token verification,
\* with a fault of code -32700 that carries no id.
C14_UndecodableIsParseError ==
    \A c \in Calls :
        (/\ Undecodable(c) /\ resp[c].auth # "fail"
         /\ server \in {"step8", "step10", "jwt_server", "server"})
        => /\ resp[c].body = "error"
           /\ resp[c].code = -32700
           /\ resp[c].id = IdAbsent

\* a request for a handler that takes params, with params the handler (or
\* the call that passes them) cannot use
BadParams(c) ==
    /\ Request(c)
    /\ req[c].method \in {"tools/call", "prompts/get"}
    /\ req[c].params # "valid"

\* C15: in step4.py .. step10.py, server.py and jwt_server.py a request whose
\* handler is given an unknown name, no params or invalid arguments, and
\* that passed verification and authorization, is answered with a JSON-RPC
\* envelope: a result if the handler tolerates the params, else a fault of
\* code -32603 with the request's id; no exception escapes the dispatcher.
C15_HandlerExceptionIsInternalError ==
    \A c \in Calls :
        (/\ BadParams(c) /\ server \notin {"step2", "step3"}
         /\ resp[c].auth # "fail" /\ resp[c].authz # "deny")
        => /\ resp[c].body \in {"result", "error"}
           /\ resp[c].body = "error"
                => (resp[c].code = -32603 /\ resp[c].id = req[c].id)

\* the call was answered with an internal-error, parse-error or
\* invalid-request fault
OpaqueFault(c) ==
    /\ Done(c)
    /\ resp[c].body = "error"
    /\ resp[c].code \in {-32603, -32700, -32600}

\* C16: the text of an internal-error, parse-error or invalid-request fault
\* holds nothing taken from the exception behind it: whatever was raised,
\* the part of the body that could carry exception text is empty.
C16_NoExceptionTextInFaults ==
    \A c \in Calls : OpaqueFault(c) => resp[c].detail = ""

\* C17: every call that token verification turns away, for whatever reason,
\* is answered 401 with the WWW-Authenticate challenge (realm and
\* resource_metadata URL), and no 401 is sent without that challenge.
C17_AuthFailureCarriesChallenge ==
    \A c \in Calls :
        (Done(c) /\ (resp[c].auth = "fail" \/ resp[c].status = 401))
        => /\ resp[c].auth = "fail"
           /\ resp[c].status = 401
           /\ resp[c].challenge
           /\ resp[c].body = "detail"

\* step10.py turned away a token whose key-id is in no key set
C17_Witness ==
    /\ server = "step10" /\ Done(1)
    /\ req[1].cred.kid = "k9"
    /\ fetch_result[1] = "ok"
    /\ resp[1].status = 401 /\ resp[1].challenge
    /\ resp[1].detail = "Invalid token"

\* the call carries a well-formed token and the server verifies tokens
\* (its key is loaded)
TokenChecked(c) ==
    /\ Done(c)
    /\ server \in ProtectedServers
    /\ public_key
    /\ req[c].cred.fmt = "jwt"

\* C18: a token whose exp lies in the past is turned away with the detail
\* "Token has expired", whether or not its signature is valid and whatever
\* its issuer and audience are.
C18_ExpiredIsReportedExpired ==
    \A c \in Calls :
        (TokenChecked(c) /\ req[c].cred.expired)
        => /\ resp[c].auth = "fail"
           /\ resp[c].detail = "Token has expired"

\* C19: in every protected server that verifies tokens, a token whose
\* header carries no key-id is turned away: it is never accepted.
C19_MissingKidIsRejected ==
    \A c \in Calls :
        (TokenChecked(c) /\ req[c].cred.kid = "none")
        => /\ resp[c].auth = "fail"
           /\ resp[c].status = 401

\* the call on step10.py reached jwt.decode with a token that is valid but
\* perhaps for its issuer and audience: the key set in hand lists its key-id
\* with the key that signed it, and it has not expired
DecodedButForIssAud(c) ==
    /\ Resolved(c)
    /\ fetch_result[c] # "failed"
    /\ get_public_key_from_jwks(jwks_cache, req[c].cred.kid) = req[c].cred.sig
    /\ ~req[c].cred.expired

\* the token names one of the configured audiences
AudienceMatches(token) ==
    \E i \in 1..Len(JWT_AUDIENCE("step10")) : JWT_AUDIENCE("step10")[i] \in token.aud

\* C20: on step10.py a token that is valid but perhaps for issuer and
\* audience is accepted exactly when its issuer is the configured one and
\* it names a configured audience; with a wrong issuer it fails with
\* "Invalid token issuer", and with the right issuer and no configured
\* audience with "Invalid token audience".
C20_AudienceAllowList ==
    \A c \in Calls :
        DecodedButForIssAud(c)
        => LET token == req[c].cred
               iss_ok == token.iss = JWT_ISSUER("step10")
           IN /\ resp[c].auth = "ok" <=> (iss_ok /\ AudienceMatches(token))
              /\ ~iss_ok => resp[c].detail = "Invalid token issuer"
              /\ (iss_ok /\ ~AudienceMatches(token))
                    => resp[c].detail = "Invalid token audience"

Kids == {"k1", "k2", "k9"}

\* a fetch of call c ends with a key-set document in this step
FetchCompletes(c) == pc[c] = "fetching" /\ fetch_result'[c] = "ok"

\* C21: a successful fetch replaces the cache wholesale: afterwards the
\* cached set is exactly the fetched set, the timestamp is the one of that
\* fetch, and a key-id that is not in the fetched set resolves to nothing,
\* so that a token naming it is turned down by the call that fetched.
C21_FetchReplacesCache ==
    [][\A c \in Calls :
        FetchCompletes(c) =>
            /\ jwks_cache' = call_jwks'[c]
            /\ jwks_cache_time' = fetch_now[c]
            /\ \A kid \in Kids :
                  (~\E k \in call_jwks'[c].keys : k[1] = kid)
                      => get_public_key_from_jwks(jwks_cache', kid) = None
            /\ (req[c].endpoint = "mcp"
                  /\ ~\E k \in call_jwks'[c].keys : k[1] = req[c].cred.kid)
                      => resp'[c].auth = "fail"]_vars

\* an expired cache was refetched, the new set has k2 only, and the token
\* that names k1 is turned down
C21_Witness ==
    /\ Done(1)
    /\ fetch_result[1] = "ok"
    /\ fetch_now[1] >= jwks_cache_duration
    /\ call_jwks[1] = DocOf({<<"k2", "K2">>})
    /\ jwks_cache = call_jwks[1]
    /\ jwks_cache_time = fetch_now[1]
    /\ req[1].cred.kid = "k1"
    /\ resp[1].status = 401

\* the cached key set holds a key whose material cannot be converted
MalformedKeyCached(c) ==
    /\ Done(c) /\ server = "step10"
    /\ call_jwks[c] # NoData
    /\ \E k \in call_jwks[c].keys : k[2] = "bad"

\* C22: key material that cannot be converted makes only the tokens naming
\* that key-id fail, as an authentication failure; a token naming a
\* well-formed key of the same set, signed by it and otherwise valid, still
\* verifies; and the cached set is the one the lookup was given, unchanged.
C22_MalformedKeyFailsOnlyItsTokens ==
    \A c \in Calls :
        (MalformedKeyCached(c) /\ req[c].cred.fmt = "jwt" /\ req[c].cred.kid # "none") =>
            /\ (\E k \in call_jwks[c].keys : k[1] = req[c].cred.kid /\ k[2] = "bad")
                  => (resp[c].status = 401 /\ resp[c].auth = "fail")
            /\ (/\ \E k \in call_jwks[c].keys :
                      k[1] = req[c].cred.kid /\ k[2] = req[c].cred.sig
                 /\ jwt_decode(req[c].cred, req[c].cred.sig,
                               JWT_AUDIENCE("step10")[1], JWT_ISSUER("step10")) = "ok")
                  => resp[c].auth = "ok"
            /\ jwks_cache = call_jwks[c]

\* the set holds k1 well-formed and k2 malformed; the token of k1 verifies
C22_Witness ==
    /\ MalformedKeyCached(1)
    /\ req[1].cred.kid = "k1" /\ req[1].cred.sig = "K1"
    /\ resp[1].auth = "ok"
    /\ jwks_cache = DocOf({<<"k1", "K1">>, <<"k2", "bad">>})

\* ... and in the same set the token of k2 is turned down
C22_WitnessMalformed ==
    /\ MalformedKeyCached(1)
    /\ req[1].cred.kid = "k2"
    /\ resp[1].status = 401

\* C23: under every interleaving of verification and health calls at their
\* await points, and under cancellation of a call during its fetch, the
\* cached key set and its timestamp change only together and only to the
\* set and the time of one fetch that completed: a reader never finds a set
\* of one fetch with the timestamp of another, nor a set without timestamp.
C23_CachePairFromOneFetch ==
    /\ [](jwks_cache_time = NoTime => jwks_cache = DocEmpty)
    /\ [][(jwks_cache' # jwks_cache \/ jwks_cache_time' # jwks_cache_time) =>
              (\E c \in Calls : /\ FetchCompletes(c)
                                 /\ jwks_cache' = call_jwks'[c]
                                 /\ jwks_cache_time' = fetch_now[c])]_vars
    /\ [][\A c \in Calls :
              (pc[c] = "fetching" /\ pc'[c] # "fetching" /\ fetch_result'[c] # "ok") =>
                  (jwks_cache' = jwks_cache /\ jwks_cache_time' = jwks_cache_time)]_vars
    /\ [][\A c \in Calls :
              (pc[c] = "idle" /\ pc'[c] = "done" /\ req'[c].endpoint = "mcp"
                  /\ resp'[c].auth = "ok")
                  => (call_jwks'[c] = jwks_cache /\ cache_valid(now))]_vars

\* two calls fetched at the same time; the one that started first finished
\* last and left its own set with its own, older, time
C23_Witness ==
    /\ pc[1] = "done" /\ pc[2] = "done"
    /\ fetch_result[1] = "ok" /\ fetch_result[2] = "ok"
    /\ fetch_now[1] < fetch_now[2]
    /\ call_jwks[1] # call_jwks[2]
    /\ jwks_cache = call_jwks[1]
    /\ jwks_cache_time = fetch_now[1]

\* C24: cache misses are not coalesced: every call that finds the cache
\* absent or stale issues its own fetch, exactly one, whatever the other
\* calls are doing, and a call served from the cache issues none; so the
\* fetches issued for n concurrent misses are n, one per caller.
C24_OneFetchPerCaller ==
    \A c \in Calls :
        /\ fetches[c] <= 1
        /\ pc[c] = "fetching" => fetches[c] = 1
        /\ (pc[c] = "done" /\ fetch_result[c] # "none") => fetches[c] = 1
        /\ (pc[c] = "done" /\ fetch_result[c] = "none") => fetches[c] = 0

\* two calls missed the cache at the same time and each has its own fetch
\* in flight
C24_Witness ==
    /\ pc[1] = "fetching" /\ pc[2] = "fetching"
    /\ req[1].endpoint = "mcp" /\ req[2].endpoint = "mcp"
    /\ fetches[1] = 1 /\ fetches[2] = 1

\* C24 as stated: concurrent misses share a single fetch in flight, so at
\* no time are two fetches of the key set under way.
C24_OneFetchInFlight ==
    Cardinality({c \in Calls : pc[c] = "fetching"}) <= 1

ScopedMethods == {"tools/list", "tools/call", "prompts/list", "prompts/get"}

\* C25: with a trust key configured a call without a credential fails with
\* the missing-credential 401; the anonymous ClaimSet is returned only when
\* no key is configured; and it passes no scope check: tools/list,
\* tools/call, prompts/list and prompts/get are denied for it and none of
\* their handlers runs.
C25_AnonymousIsDeniedEverything ==
    \A c \in Calls :
        (Done(c) /\ server \in ProtectedServers) =>
            /\ (public_key /\ req[c].cred = NoCredentials) =>
                  /\ resp[c].status = 401
                  /\ resp[c].detail = "Authorization header missing"
            /\ resp[c].auth = "anonymous" => ~public_key
            /\ (resp[c].auth = "anonymous" /\ Request(c)
                    /\ req[c].method \in ScopedMethods) =>
                  (resp[c].authz # "allow" /\ resp[c].handler = "none"
                      /\ resp[c].body # "result")

TrustedHosts == {localhost, loopback}

\* the servers that register origin_validation_middleware
OriginServers == {"step2", "step3", "step4", "step6", "step8", "step10"}

\* C26: the Origin middleware admits only trusted origins: a POST /mcp call
\* that carries an Origin header gets past the middleware, to token
\* verification and dispatch, only if the host of the origin is localhost
\* or 127.0.0.1 (any port); with any other origin it is answered 403 and
\* neither verification nor a handler has run.
C26_OnlyTrustedOriginsAdmitted ==
    \A c \in Calls :
        (Terminal(c) /\ server \in OriginServers /\ req[c].origin # NoOrigin) =>
            /\ resp[c] # OriginRejected => req[c].origin.host \in TrustedHosts
            /\ req[c].origin.host \notin TrustedHosts =>
                  (resp[c].status = 403 /\ resp[c].auth = "none"
                      /\ resp[c].handler = "none")

\* the signature of the token is by a key the server trusts: the loaded
\* public key, or the key the key set holds under the token's key-id
TrustedSignature(c) ==
    IF server = "step10"
    THEN /\ req[c].cred.kid # "none"
         /\ \E k \in call_jwks[c].keys : k[1] = req[c].cred.kid /\ k[2] = req[c].cred.sig
    ELSE public_key /\ req[c].cred.sig = LocalKey

\* the token of call c is issued in the future and has nothing else wrong
FutureIatOnly(c) ==
    /\ Done(c) /\ server \in ProtectedServers
    /\ req[c].cred.fmt = "jwt"
    /\ req[c].cred.iat_future
    /\ TrustedSignature(c)
    /\ ~req[c].cred.expired
    /\ req[c].cred.iss = JWT_ISSUER(server)
    /\ req[c].cred.has_aud
    /\ \E i \in DOMAIN JWT_AUDIENCE(server) : JWT_AUDIENCE(server)[i] \in req[c].cred.aud

C27_WitnessLocal ==
    /\ FutureIatOnly(1)
    /\ server = "jwt_server"
    /\ resp[1].auth = "ok"

\* C28: envelope parsing precedes authentication in step8.py, step10.py and
\* jwt_server.py: a call whose body does not decode is never answered with
\* a verification fault, whatever credential it carries, because the
\* verifier is not run before the envelope has been parsed.
C28_ParsingPrecedesAuthentication ==
    \A c \in Calls :
        (Undecodable(c) /\ server \in PolicyServers)
        => /\ resp[c].auth # "fail"
           /\ resp[c].status # 401

\* C29: in every server with token verification (step6, step8, step10,
\* jwt_server) a method handler runs only in a call whose token has been
\* verified and, for tools/* and prompts/*, whose authorization check has
\* returned allow; after a verification fault or a deny no handler runs.
C29_HandlerOnlyAfterVerifyAndAllow ==
    \A c \in Calls :
        (Done(c) /\ server \in ProtectedServers) =>
            /\ resp[c].handler # "none" =>
                  /\ resp[c].auth = "ok"
                  /\ req[c].method \in ScopedMethods => resp[c].authz = "allow"
            /\ (resp[c].auth = "fail" \/ resp[c].authz = "deny") => resp[c].handler = "none"

\* the call has its one outcome: a response (a result or a fault), or the
\* acknowledgement of a notification
Outcome(c) ==
    /\ Terminal(c)
    /\ resp[c] # NoResponse
    /\ resp[c].status \in {200, 202, 400, 401, 403, 500}

\* C30: a POST /mcp call never stays in an intermediate state: the only
\* place where it waits is the fetch of the key set, and from there it
\* reaches its one outcome, because the fetch ends, with an answer or, for
\* an endpoint that stays silent, with the fault the timeout raises; and a
\* call that is done has exactly one response.
C30_EveryCallReachesItsOutcome ==
    /\ [](\A c \in Calls : Terminal(c) => Outcome(c))
    /\ \A c \in Calls :
          (pc[c] = "fetching" /\ req[c].endpoint = "mcp") ~> Outcome(c)

\* a fetch that got no answer ended as a fault and the call was answered 401
C30_Witness ==
    /\ Outcome(1)
    /\ fetch_result[1] = "failed"
    /\ fetches[1] = 1
    /\ resp[1].status = 401

\* the credential is one that verify_token turns down before it decodes the
\* token against a key: no header, an empty token, a token with a newline
\* or carriage return, a header without kid
RejectedBeforeDecoding(cred) ==
    \/ cred.fmt \in {"absent", "empty", "ctrl"}
    \/ cred.fmt = "jwt" /\ cred.kid = "none"

\* C31: in step10.py a credential rejected before decoding is rejected
\* before any key resolution: the call is answered 401, it has issued no
\* key-set fetch and was handed no key set, and the step that serves it
\* leaves the key cache and its timestamp as they were.
C31_EarlyRejectionDoesNotFetch ==
    /\ [](\A c \in Calls :
            (Done(c) /\ server = "step10" /\ RejectedBeforeDecoding(req[c].cred)) =>
                /\ resp[c].status = 401 /\ resp[c].auth = "fail"
                /\ fetches[c] = 0
                /\ fetch_result[c] = "none"
                /\ call_jwks[c] = NoData)
    /\ [][\A c \in Calls :
            (server = "step10" /\ pc[c] = "idle" /\ pc'[c] # "idle"
                /\ req'[c].endpoint = "mcp" /\ RejectedBeforeDecoding(req'[c].cred)) =>
                /\ pc'[c] = "done"
                /\ jwks_cache' = jwks_cache
                /\ jwks_cache_time' = jwks_cache_time]_vars

\* a token without kid was turned down while the cache was stale: a call
\* with a kid would have fetched at this moment
C31_Witness ==
    /\ Done(1) /\ server = "step10"
    /\ req[1].cred.fmt = "jwt" /\ req[1].cred.kid = "none"
    /\ resp[1].status = 401
    /\ fetches[1] = 0
    /\ jwks_cache_time # NoTime
    /\ ~cache_valid(now)

\* the fetch of call c ends in this step without a key-set document
FetchFaults(c) == pc[c] = "fetching" /\ fetch_result'[c] = "failed"

C33_CacheNeverGoesBackwards ==
    [][jwks_cache_time' >= jwks_cache_time]_vars

\* C34: in step8.py, step10.py and jwt_server.py every fault envelope
\* produced for a request whose id was parsed carries that id, the
\* permission-denied fault and the internal-error fault included, and a
\* denial is always such a fault envelope.
C34_FaultCarriesRequestId ==
    \A c \in Calls :
        (Request(c) /\ server \in PolicyServers) =>
            /\ resp[c].body = "error" => resp[c].id = req[c].id
            /\ resp[c].authz = "deny" => resp[c].id = req[c].id

C35_WitnessDenied ==
    /\ Request(1) /\ server = "step8"
    /\ req[1].cred = BareToken("step8")
    /\ req[1].method = "tools/list"
    /\ resp[1].auth = "ok" /\ resp[1].status = 403

\* the steps of the flow, in the order the claim gives them; the client
\* credentials are had before the authorization URL is built, from the
\* file at the start of the run or from the registration
FlowOrder ==
    <<"challenge", "resource_metadata", "authz_metadata", "url",
      "redirect", "code", "exchange", "tools_list">>

\* the step main() stands at has all the steps before it behind it
StepsInOrder ==
    /\ \A i \in DOMAIN FlowOrder :
          (FlowOrder[i] \in client.done \/ client.step = FlowOrder[i]) =>
              \A j \in 1 .. (i - 1) : FlowOrder[j] \in client.done
    /\ ("url" \in client.done \/ client.step = "url") => "credentials" \in client.done

\* C36: in the OAuth client flow of step11.py the steps run in order, and
\* the authorization code is exchanged for a token only if the state of the
\* redirect URL equals the state generated for the authorization request:
\* with a missing or different state no token request is sent and no
\* access token is obtained.
C36_CodeExchangedOnlyWithMatchingState ==
    /\ StepsInOrder
    /\ client.token_requests > 0 => client.redirect.state = client.state
    /\ client.access_token => client.redirect.state = client.state

====
